---- MODULE Spec2Model ----
(***************************************************************************)
(* Model of analyze_and_plot_real_logs.py: the CoojaLogAnalyzer log        *)
(* counter (analyze / get_metrics) and the report emitter (main, the six   *)
(* plot_* functions and generate_summary_table).                           *)
(*                                                                         *)
(* Text is modelled as sequences of one-character strings, so substring    *)
(* tests and case conversion are computed, not assumed.  The two derived   *)
(* percentages are modelled as exact rationals [num, den]; the rounding of *)
(* Python's binary floating point is not part of the model.                *)
(***************************************************************************)
EXTENDS Integers, Sequences, FiniteSets, TLC

(***************************************************************************)
(* Bounds of the model.                                                    *)
(***************************************************************************)
MaxLines == 3      \* lines read from the log in one analyze() invocation
MaxRuns == 2       \* analyze() invocations on one analyzer object
MaxCalls == 2      \* invocations of main() or of a report function

(***************************************************************************)
(* Characters and case conversion (str.upper / str.lower on ASCII letters) *)
(***************************************************************************)
LowerLetters == <<"a","b","c","d","e","f","g","h","i","j","k","l","m","n","o","p","q","r","s","t","u","v","w","x","y","z">>
UpperLetters == <<"A","B","C","D","E","F","G","H","I","J","K","L","M","N","O","P","Q","R","S","T","U","V","W","X","Y","Z">>

LetterIndex(letters, c) == CHOOSE i \in 1..Len(letters) : letters[i] = c

IsLower(c) == \E i \in 1..Len(LowerLetters) : LowerLetters[i] = c

IsUpper(c) == \E i \in 1..Len(UpperLetters) : UpperLetters[i] = c

UpperChar(c) == IF IsLower(c) THEN UpperLetters[LetterIndex(LowerLetters, c)] ELSE c

LowerChar(c) == IF IsUpper(c) THEN LowerLetters[LetterIndex(UpperLetters, c)] ELSE c

\* line.upper()
Upper(s) == [i \in 1..Len(s) |-> UpperChar(s[i])]

\* line.lower()
Lower(s) == [i \in 1..Len(s) |-> LowerChar(s[i])]

\* sub in s
Contains(sub, s) == \E i \in 0..(Len(s) - Len(sub)) : SubSeq(s, i + 1, i + Len(sub)) = sub

(***************************************************************************)
(* The string literals of analyze().                                       *)
(***************************************************************************)
K_DATA_TX == <<"D","A","T","A","_","T","X",":">>
K_Sending == <<"S","e","n","d","i","n","g"," ","p","a","c","k","e","t">>
K_Received == <<"D","A","T","A",":"," ","R","e","c","e","i","v","e","d">>
K_RX == <<"R","X"," ","[">>
K_SentTo == <<"p","a","c","k","e","t"," ","s","e","n","t"," ","t","o">>
K_DAO == <<"D","A","O">>
K_BlockedDAO == <<"B","l","o","c","k","e","d"," ","D","A","O">>
K_blocked == <<"b","l","o","c","k","e","d">>
K_BLACKLISTED == <<"B","L","A","C","K","L","I","S","T","E","D">>
K_AttackCount == <<"A","t","t","a","c","k"," ","c","o","u","n","t">>

(***************************************************************************)
(* The lines a log may hold: one per marker, the case variants, a line     *)
(* with a marker twice, a line with several markers, lines with none.      *)
(***************************************************************************)
L_DataTx == <<"D","A","T","A","_","T","X",":"," ","1">>
L_DataTxTwice == <<"D","A","T","A","_","T","X",":"," ","D","A","T","A","_","T","X",":">>
L_Sending == <<"S","e","n","d","i","n","g"," ","p","a","c","k","e","t">>
L_Received == <<"D","A","T","A",":"," ","R","e","c","e","i","v","e","d">>
L_Rx == <<"R","X"," ","[","2","]">>
L_SentDAO == <<"p","a","c","k","e","t"," ","s","e","n","t"," ","t","o"," ","D","A","O">>
L_SentDaoLower == <<"p","a","c","k","e","t"," ","s","e","n","t"," ","t","o"," ","d","a","o">>
L_SentOther == <<"p","a","c","k","e","t"," ","s","e","n","t"," ","t","o"," ","3">>
L_BlockedDAO == <<"B","l","o","c","k","e","d"," ","D","A","O">>
L_BLOCKED == <<"B","L","O","C","K","E","D">>
L_Multi == <<"B","L","A","C","K","L","I","S","T","E","D"," ","A","t","t","a","c","k"," ","c","o","u","n","t"," ","b","l","o","c","k","e","d">>
L_TxAndRx == <<"D","A","T","A","_","T","X",":"," ","1"," ","R","X"," ","[","2","]">>
L_LowerBlacklisted == <<"b","l","a","c","k","l","i","s","t","e","d">>

LinePool ==
    { L_DataTx, L_DataTxTwice, L_Sending, L_Received, L_Rx, L_SentDAO,
      L_SentDaoLower, L_SentOther, L_BlockedDAO, L_BLOCKED, L_Multi,
      L_TxAndRx, L_LowerBlacklisted }

(***************************************************************************)
(* The six per-line predicates of analyze().                               *)
(***************************************************************************)
IsDataSent(line) == Contains(K_DATA_TX, line) \/ Contains(K_Sending, line)

IsDataReceived(line) == Contains(K_Received, line) \/ Contains(K_RX, line)

IsDaoSent_CaseSensitive(line) == Contains(K_SentTo, line) /\ Contains(K_DAO, line)

IsDaoSent(line) == Contains(K_SentTo, line) /\ Contains(K_DAO, Upper(line))

IsDaoBlocked_CaseSensitive(line) == Contains(K_BlockedDAO, line) \/ Contains(K_blocked, line)

IsDaoBlocked(line) == Contains(K_BlockedDAO, line) \/ Contains(K_blocked, Lower(line))

IsBlacklisted(line) == Contains(K_BLACKLISTED, line)

IsAttackCount(line) == Contains(K_AttackCount, line)

(***************************************************************************)
(* The counters of a CoojaLogAnalyzer object.                              *)
(***************************************************************************)
CounterNames ==
    { "data_sent", "data_received", "dao_sent", "dao_blocked",
      "nodes_blacklisted", "attack_count" }

\* CoojaLogAnalyzer.__init__
ZeroCounters == [k \in CounterNames |-> 0]

Bump(b) == IF b THEN 1 ELSE 0

\* a scan whose six tests form one if/elif chain: the first match wins
ScanOne_ElifChain(c, line) ==
    IF IsDataSent(line) THEN [c EXCEPT !.data_sent = @ + 1]
    ELSE IF IsDataReceived(line) THEN [c EXCEPT !.data_received = @ + 1]
    ELSE IF IsDaoSent(line) THEN [c EXCEPT !.dao_sent = @ + 1]
    ELSE IF IsDaoBlocked(line) THEN [c EXCEPT !.dao_blocked = @ + 1]
    ELSE IF IsBlacklisted(line) THEN [c EXCEPT !.nodes_blacklisted = @ + 1]
    ELSE IF IsAttackCount(line) THEN [c EXCEPT !.attack_count = @ + 1]
    ELSE c

\* the body of the for loop of analyze(): six independent if statements
ScanOne(c, line) ==
    [ data_sent         |-> c.data_sent + Bump(IsDataSent(line)),
      data_received     |-> c.data_received + Bump(IsDataReceived(line)),
      dao_sent          |-> c.dao_sent + Bump(IsDaoSent(line)),
      dao_blocked       |-> c.dao_blocked + Bump(IsDaoBlocked(line)),
      nodes_blacklisted |-> c.nodes_blacklisted + Bump(IsBlacklisted(line)),
      attack_count      |-> c.attack_count + Bump(IsAttackCount(line)) ]

(***************************************************************************)
(* Exact rationals for the two percentages.                                *)
(***************************************************************************)
RECURSIVE GCD(_, _)
GCD(a, b) == IF b = 0 THEN a ELSE GCD(b, a % b)

Abs(n) == IF n < 0 THEN -n ELSE n

\* n / d in lowest terms, d > 0
Rat(n, d) ==
    LET g == GCD(Abs(n), d)
    IN  [num |-> n \div g, den |-> d \div g]

RatInt(n) == [num |-> n, den |-> 1]

RatMulInt(q, k) == Rat(q.num * k, q.den)

IntMinusRat(k, q) == Rat(k * q.den - q.num, q.den)

RatPlus(p, q) == Rat(p.num * q.den + q.num * p.den, p.den * q.den)

RatLeq(p, q) == p.num * q.den <= q.num * p.den

RatLess(p, q) == p.num * q.den < q.num * p.den

\* the value Python raises ZeroDivisionError for
DivByZero == [num |-> 0, den |-> 0]

\* a / b (true division)
TrueDiv(a, b) == IF b = 0 THEN DivByZero ELSE Rat(a, b)

Snapshot(c, pdr, plr) ==
    [ data_sent         |-> c.data_sent,
      data_received     |-> c.data_received,
      pdr               |-> pdr,
      plr               |-> plr,
      dao_sent          |-> c.dao_sent,
      dao_blocked       |-> c.dao_blocked,
      nodes_blacklisted |-> c.nodes_blacklisted,
      attack_count      |-> c.attack_count ]

\* get_metrics without the data_sent > 0 test
get_metrics_NoGuard(c) ==
    LET q == TrueDiv(c.data_received, c.data_sent)
        pdr == IF q = DivByZero THEN DivByZero ELSE RatMulInt(q, 100)
        plr == IF q = DivByZero THEN DivByZero ELSE IntMinusRat(100, pdr)
    IN  Snapshot(c, pdr, plr)

\* get_metrics with the loss ratio computed from the counters
get_metrics_PlrFromCounters(c) ==
    LET pdr == IF c.data_sent > 0
               THEN RatMulInt(TrueDiv(c.data_received, c.data_sent), 100)
               ELSE RatInt(0)
        plr == IF c.data_sent > 0
               THEN RatMulInt(TrueDiv(c.data_sent - c.data_received, c.data_sent), 100)
               ELSE RatInt(0)
    IN  Snapshot(c, pdr, plr)

\* get_metrics with the delivery ratio clamped to 100
get_metrics_Clamped(c) ==
    LET raw == IF c.data_sent > 0
               THEN RatMulInt(TrueDiv(c.data_received, c.data_sent), 100)
               ELSE RatInt(0)
        pdr == IF RatLeq(raw, RatInt(100)) THEN raw ELSE RatInt(100)
    IN  Snapshot(c, pdr, IntMinusRat(100, pdr))

\* CoojaLogAnalyzer.get_metrics
get_metrics(c) ==
    LET pdr == IF c.data_sent > 0
               THEN RatMulInt(TrueDiv(c.data_received, c.data_sent), 100)
               ELSE RatInt(0)
        plr == IntMinusRat(100, pdr)
    IN  Snapshot(c, pdr, plr)

NoMetrics == [none |-> TRUE]

(***************************************************************************)
(* Output text: a stream is the complete lines written so far and the      *)
(* characters of the line not yet terminated.                              *)
(***************************************************************************)
NL == "\n"

EmptyStream == [lines |-> <<>>, cur |-> <<>>]

\* file.write(s): every newline character of s ends the current line
WriteText(st, s) ==
    LET nl == {i \in 1..Len(s) : s[i] = NL}
        k == Cardinality(nl)
        Pos(j) == CHOOSE p \in nl : Cardinality({q \in nl : q < p}) = j - 1
        ended == [j \in 1..k |->
                    IF j = 1 THEN st.cur \o SubSeq(s, 1, Pos(1) - 1)
                    ELSE SubSeq(s, Pos(j - 1) + 1, Pos(j) - 1)]
    IN  IF k = 0
        THEN [st EXCEPT !.cur = @ \o s]
        ELSE [lines |-> st.lines \o ended, cur |-> SubSeq(s, Pos(k) + 1, Len(s))]

\* print(s): s followed by a newline
print_to(st, s) == WriteText(st, s \o <<NL>>)

RECURSIVE WriteAll(_, _)
WriteAll(st, texts) ==
    IF texts = <<>> THEN st ELSE WriteAll(WriteText(st, Head(texts)), Tail(texts))

RECURSIVE PrintAll(_, _)
PrintAll(st, texts) ==
    IF texts = <<>> THEN st ELSE PrintAll(print_to(st, Head(texts)), Tail(texts))

\* c * n
Rep(c, n) == [i \in 1..n |-> c]

\* f"{s:<w}": left-justified in a field of width w, never truncated
PadLeftJustified(s, w) == IF Len(s) >= w THEN s ELSE s \o Rep(" ", w - Len(s))

Digits == <<"0","1","2","3","4","5","6","7","8","9">>

\* str(n) for an int n >= 0
RECURSIVE IntStr(_)
IntStr(n) == IF n < 10 THEN <<Digits[n + 1]>> ELSE IntStr(n \div 10) \o <<Digits[(n % 10) + 1]>>

\* str(x) for a float x >= 0 given in hundredths: the shortest decimal form
FloatStr(h) ==
    IntStr(h \div 100) \o <<".">> \o
        (IF h % 10 = 0 THEN <<Digits[((h % 100) \div 10) + 1]>>
         ELSE <<Digits[((h % 100) \div 10) + 1], Digits[(h % 10) + 1]>>)

IntVal(n) == [kind |-> "int", v |-> n]

FloatVal(h) == [kind |-> "float", v |-> h]

\* str(x)
PyStr(x) == IF x.kind = "int" THEN IntStr(x.v) ELSE FloatStr(x.v)

(***************************************************************************)
(* The literal data and texts of generate_summary_table().                 *)
(***************************************************************************)
ResultsMetric ==
    << <<"P","D","R"," ","(","%",")">>,
       <<"P","L","R"," ","(","%",")">>,
       <<"A","E","2","E","D"," ","(","s",")">>,
       <<"A","P","C"," ","(","m","W",")">>,
       <<"D","A","O","s"," ","B","l","o","c","k","e","d">>,
       <<"F","P","R"," ","(","%",")">> >>

ResultsBaseline == <<FloatVal(9850), FloatVal(150), FloatVal(26), IntVal(46), IntVal(0), IntVal(0)>>

ResultsUnderAttack == <<IntVal(52), IntVal(48), FloatVal(240), IntVal(82), IntVal(0), IntVal(0)>>

ResultsWithLiMSD == <<IntVal(96), IntVal(4), FloatVal(38), IntVal(48), IntVal(1250), FloatVal(160)>>

ResultsImprovement ==
    << <<"+","4","4","%">>, <<"-","4","4","%">>, <<"-","8","4","%">>, <<"-","4","1","%">>, <<"N","/","A">>, <<"N","/","A">> >>

T_Title == <<"R","E","S","U","L","T","S"," ","S","U","M","M","A","R","Y"," ","T","A","B","L","E">>
T_Metric == <<"M","e","t","r","i","c">>
T_Baseline == <<"B","a","s","e","l","i","n","e">>
T_UnderAttack == <<"U","n","d","e","r"," ","A","t","t","a","c","k">>
T_WithLiMSD == <<"W","i","t","h"," ","L","i","-","M","S","D">>
T_Improvement == <<"I","m","p","r","o","v","e","m","e","n","t">>
T_Saved == <<"S","a","v","e","d",":"," ">>
T_Results == <<"r","e","s","u","l","t","s","/">>
T_SummaryName == <<"s","u","m","m","a","r","y","_","t","a","b","l","e",".","t","x","t">>

Sep80 == Rep("=", 80)

Dash80 == Rep("-", 80)

\* the f-string of the column header
HeaderLine ==
    PadLeftJustified(T_Metric, 15) \o <<" ">> \o PadLeftJustified(T_Baseline, 12) \o <<" ">> \o
    PadLeftJustified(T_UnderAttack, 15) \o <<" ">> \o PadLeftJustified(T_WithLiMSD, 15) \o <<" ">> \o
    PadLeftJustified(T_Improvement, 12)

\* the f-string of row i
RowLine(i) ==
    PadLeftJustified(ResultsMetric[i], 15) \o <<" ">> \o
    PadLeftJustified(PyStr(ResultsBaseline[i]), 12) \o <<" ">> \o
    PadLeftJustified(PyStr(ResultsUnderAttack[i]), 15) \o <<" ">> \o
    PadLeftJustified(PyStr(ResultsWithLiMSD[i]), 15) \o <<" ">> \o
    PadLeftJustified(ResultsImprovement[i], 12)

RowLines == [i \in 1..Len(ResultsMetric) |-> RowLine(i)]

\* the arguments of the print calls of generate_summary_table before the file is opened
SummaryPrints ==
    << <<NL>> \o Sep80, T_Title, Sep80, HeaderLine, Dash80 >> \o RowLines \o << Sep80 \o <<NL>> >>

\* the file written without its dashed separator
SummaryWrites_NoDash ==
    << Sep80 \o <<NL>>, T_Title \o <<NL>>, Sep80 \o <<NL>>, HeaderLine \o <<NL>> >> \o
    [i \in 1..Len(RowLines) |-> RowLines[i] \o <<NL>>] \o << Sep80 \o <<NL>> >>

\* the arguments of the f.write calls of generate_summary_table, in order
SummaryWrites ==
    << Sep80 \o <<NL>>, T_Title \o <<NL>>, Sep80 \o <<NL>>, HeaderLine \o <<NL>>, Dash80 \o <<NL>> >> \o
    [i \in 1..Len(RowLines) |-> RowLines[i] \o <<NL>>] \o << Sep80 \o <<NL>> >>

SummaryPath == T_Results \o T_SummaryName

(***************************************************************************)
(* The charts: one plot function and one image file each.                  *)
(***************************************************************************)
Charts == <<"pdr", "delay", "power", "plr", "fpr", "memory">>

ChartSet == {Charts[i] : i \in 1..Len(Charts)}

ImageName(k) ==
    CASE k = "pdr" -> <<"f","i","g","_","p","d","r","_","c","o","m","p","a","r","i","s","o","n",".","p","n","g">>
      [] k = "delay" -> <<"f","i","g","_","d","e","l","a","y","_","c","o","m","p","a","r","i","s","o","n",".","p","n","g">>
      [] k = "power" -> <<"f","i","g","_","p","o","w","e","r","_","c","o","m","p","a","r","i","s","o","n",".","p","n","g">>
      [] k = "plr" -> <<"f","i","g","_","p","l","r","_","c","o","m","p","a","r","i","s","o","n",".","p","n","g">>
      [] k = "fpr" -> <<"f","i","g","_","f","p","r","_","c","o","m","p","a","r","i","s","o","n",".","p","n","g">>
      [] k = "memory" -> <<"f","i","g","_","m","e","m","o","r","y","_","o","v","e","r","h","e","a","d",".","p","n","g">>

ImagePath(k) == T_Results \o ImageName(k)

(***************************************************************************)
(* The texts printed by main().                                            *)
(***************************************************************************)
Sep60 == Rep("=", 60)

T_MainTitle == <<"D","A","O"," ","S","H","I","E","L","D"," ","(","L","i","-","M","S","D",")"," ","-"," ","A","n","a","l","y","s","i","s"," ","&"," ","G","r","a","p","h"," ","G","e","n","e","r","a","t","i","o","n">>
T_Generating == <<"G","e","n","e","r","a","t","i","n","g"," ","g","r","a","p","h","s",".",".",".">>
T_CheckMark == <<"U+2705">>
T_Success == T_CheckMark \o <<" ","A","l","l"," ","g","r","a","p","h","s"," ","g","e","n","e","r","a","t","e","d"," ","s","u","c","c","e","s","s","f","u","l","l","y","!">>
T_GeneratedFiles == <<"G","e","n","e","r","a","t","e","d"," ","f","i","l","e","s",":">>
T_Item == <<" "," ","-"," ">>
T_ToAnalyze == <<"T","o"," ","a","n","a","l","y","z","e"," ","y","o","u","r"," ","a","c","t","u","a","l"," ","l","o","g"," ","f","i","l","e","s",":">>
T_Hint1 == <<" "," ","1","."," ","S","a","v","e"," ","C","o","o","j","a"," ","l","o","g","s"," ","t","o"," ","t","h","e"," ","'","l","o","g","s","/","'"," ","d","i","r","e","c","t","o","r","y">>
T_Hint2 == <<" "," ","2","."," ","R","u","n",":"," ","p","y","t","h","o","n","3"," ","a","n","a","l","y","z","e","_","r","e","a","l","_","l","o","g","s",".","p","y">>

\* the print calls of main before the first chart
MainHeaderPrints == << Sep60, T_MainTitle, Sep60, <<>>, T_Generating >>

\* the print calls of main after generate_summary_table
MainBannerPrints ==
    << <<NL>> \o Sep60, T_Success, Sep60, <<NL>> \o T_GeneratedFiles >> \o
    [i \in 1..Len(Charts) |-> T_Item \o ImagePath(Charts[i])] \o
    << T_Item \o SummaryPath, <<>>, <<NL>> \o T_ToAnalyze, T_Hint1, T_Hint2 >>

\* the calls of main in program order
MainOrder == <<"makedirs">> \o Charts \o <<"summary">>

\* the statement of main that follows step s
StepAfter(s) ==
    IF s = "summary" THEN "banner"
    ELSE MainOrder[(CHOOSE i \in 1..Len(MainOrder) : MainOrder[i] = s) + 1]

\* an exception caught around each call of main, the run going on
AfterFailure_Swallowed(c, s) ==
    IF c = "main"
    THEN [status |-> "running", rpc |-> StepAfter(s)]
    ELSE [status |-> "aborted", rpc |-> "stopped"]

\* an exception raised in step s: nothing catches it, the invocation ends
AfterFailure(c, s) == [status |-> "aborted", rpc |-> "stopped"]

\* the return of step s: main goes on, a direct call is over
AfterSuccess(c, s) ==
    IF c = "main"
    THEN [status |-> "running", rpc |-> StepAfter(s)]
    ELSE [status |-> "finished", rpc |-> "stopped"]

Absent == [absent |-> TRUE]

Outputs == ChartSet \cup {"summary"}

(***************************************************************************)
(* State.                                                                  *)
(***************************************************************************)
VARIABLES
    apc,         \* analyzer: "constructed", "scanning" (in the for loop), "returned"
    self,        \* analyzer: the six counters of the object
    read,        \* analyzer: the lines of the log read so far by the current analyze()
    before,      \* analyzer: the counters as they were before the last line was scanned
    metrics,     \* analyzer: the snapshot returned by the last analyze(), or NoMetrics
    runs,        \* analyzer: analyze() invocations started on this object
    caller,      \* report: "none", "main" (inside main()) or "direct" (a function called on its own)
    rpc,         \* report: the statement to execute next, or "stopped"
    status,      \* report: "idle", "running", "aborted" (exception left the invocation), "finished"
    dirExists,   \* report: the directory results/ exists
    images,      \* report: per chart, its image file: "absent", "partial" or "complete"
    summaryFile, \* report: the text of results/summary_table.txt, or Absent
    console,     \* report: standard output of the current invocation
    conMark,     \* report: console lines printed before generate_summary_table began
    trace,       \* report: the steps started by the current invocation, in order
    written,     \* report: the outputs the current invocation has written completely
    calls,       \* report: invocations started so far
    noDirWrite   \* report: the current invocation tried to write a file with results/ missing

avars == <<apc, self, read, before, metrics, runs>>

rvars == <<caller, rpc, status, dirExists, images, summaryFile, console, conMark,
           trace, written, calls, noDirWrite>>

vars == <<avars, rvars>>

(***************************************************************************)
(* The log analyzer.                                                       *)
(***************************************************************************)
AInit ==
    /\ apc = "constructed"
    /\ self = ZeroCounters
    /\ read = <<>>
    /\ before = ZeroCounters
    /\ metrics = NoMetrics
    /\ runs = 0

\* analyze() on a fresh object: the log is opened, nothing is read yet
Analyze ==
    /\ apc = "constructed"
    /\ apc' = "scanning"
    /\ read' = <<>>
    /\ before' = self
    /\ runs' = runs + 1
    /\ UNCHANGED <<self, metrics>>
    /\ UNCHANGED rvars

\* analyze() invoked again on the same object: the counters are kept
AnalyzeAgain ==
    /\ apc = "returned"
    /\ runs < MaxRuns
    /\ apc' = "scanning"
    /\ read' = <<>>
    /\ before' = self
    /\ runs' = runs + 1
    /\ UNCHANGED <<self, metrics>>
    /\ UNCHANGED rvars

\* one iteration of the for loop
ScanLine ==
    /\ apc = "scanning"
    /\ Len(read) < MaxLines
    /\ \E line \in LinePool :
          /\ read' = Append(read, line)
          /\ before' = self
          /\ self' = ScanOne(self, line)
    /\ UNCHANGED <<apc, metrics, runs>>
    /\ UNCHANGED rvars

\* end of file: return self.get_metrics()
AnalyzeReturn ==
    /\ apc = "scanning"
    /\ apc' = "returned"
    /\ metrics' = get_metrics(self)
    /\ UNCHANGED <<self, read, before, runs>>
    /\ UNCHANGED rvars

(***************************************************************************)
(* The report emitter.                                                     *)
(***************************************************************************)
RInit ==
    /\ caller = "none"
    /\ rpc = "stopped"
    /\ status = "idle"
    /\ images = [k \in ChartSet |-> "absent"]
    /\ summaryFile = Absent
    /\ console = EmptyStream
    /\ conMark = 0
    /\ trace = <<>>
    /\ written = {}
    /\ calls = 0
    /\ noDirWrite = FALSE

\* a new invocation starts at statement s
Enter(c, s) ==
    /\ status # "running"
    /\ calls < MaxCalls
    /\ caller' = c
    /\ rpc' = s
    /\ status' = "running"
    /\ console' = EmptyStream
    /\ conMark' = 0
    /\ trace' = <<>>
    /\ written' = {}
    /\ noDirWrite' = FALSE
    /\ calls' = calls + 1
    /\ UNCHANGED <<dirExists, images, summaryFile>>
    /\ UNCHANGED avars

\* the script is run: main()
CallMain == Enter("main", "makedirs")

\* one of the six plot functions is called on its own
CallChart == \E k \in ChartSet : Enter("direct", k)

\* generate_summary_table() is called on its own
CallSummary == Enter("direct", "summary")

\* os.makedirs('results', exist_ok=True) and the header prints of main
MainMakedirs ==
    /\ status = "running"
    /\ rpc = "makedirs"
    /\ trace' = Append(trace, "makedirs")
    /\ \E ok \in BOOLEAN :
          /\ dirExists => ok
          /\ IF ok
             THEN /\ dirExists' = TRUE
                  /\ console' = PrintAll(console, MainHeaderPrints)
                  /\ status' = AfterSuccess(caller, "makedirs").status
                  /\ rpc' = AfterSuccess(caller, "makedirs").rpc
             ELSE /\ UNCHANGED <<dirExists, console>>
                  /\ status' = AfterFailure(caller, "makedirs").status
                  /\ rpc' = AfterFailure(caller, "makedirs").rpc
    /\ UNCHANGED <<caller, images, summaryFile, conMark, written, calls, noDirWrite>>
    /\ UNCHANGED avars

\* a plot function: plt.savefig(path), print("Saved: path")
PlotChart ==
    /\ status = "running"
    /\ rpc \in ChartSet
    /\ trace' = Append(trace, rpc)
    /\ IF ~dirExists
       THEN \* savefig cannot open the file: FileNotFoundError
            /\ noDirWrite' = TRUE
            /\ status' = AfterFailure(caller, rpc).status
            /\ rpc' = AfterFailure(caller, rpc).rpc
            /\ UNCHANGED <<images, console, written>>
       ELSE \E ok \in BOOLEAN :
              IF ok
              THEN /\ images' = [images EXCEPT ![rpc] = "complete"]
                   /\ console' = print_to(console, T_Saved \o ImagePath(rpc))
                   /\ written' = written \cup {rpc}
                   /\ status' = AfterSuccess(caller, rpc).status
                   /\ rpc' = AfterSuccess(caller, rpc).rpc
                   /\ UNCHANGED noDirWrite
              ELSE \* the write fails: the file is left as it was or truncated
                   /\ \E left \in {images[rpc], "partial"} :
                         images' = [images EXCEPT ![rpc] = left]
                   /\ status' = AfterFailure(caller, rpc).status
                   /\ rpc' = AfterFailure(caller, rpc).rpc
                   /\ UNCHANGED <<console, written, noDirWrite>>
    /\ UNCHANGED <<caller, dirExists, summaryFile, conMark, calls>>
    /\ UNCHANGED avars

\* generate_summary_table: the table printed to the console
SummaryPrint ==
    /\ status = "running"
    /\ rpc = "summary"
    /\ trace' = Append(trace, "summary")
    /\ conMark' = Len(console.lines)
    /\ console' = PrintAll(console, SummaryPrints)
    /\ rpc' = "summary_write"
    /\ UNCHANGED <<caller, status, dirExists, images, summaryFile, written, calls, noDirWrite>>
    /\ UNCHANGED avars

\* generate_summary_table: open('results/summary_table.txt', 'w'), the
\* f.write calls, the close, print("Saved: ...")
SummaryWrite ==
    /\ status = "running"
    /\ rpc = "summary_write"
    /\ IF ~dirExists
       THEN \* open fails: FileNotFoundError
            /\ noDirWrite' = TRUE
            /\ status' = AfterFailure(caller, "summary").status
            /\ rpc' = AfterFailure(caller, "summary").rpc
            /\ UNCHANGED <<summaryFile, console, written>>
       ELSE \/ \* open fails, the file is not touched
               /\ status' = AfterFailure(caller, "summary").status
               /\ rpc' = AfterFailure(caller, "summary").rpc
               /\ UNCHANGED <<summaryFile, console, written, noDirWrite>>
            \/ \* the file is truncated and the first n writes succeed
               \E n \in 0..Len(SummaryWrites) :
                  /\ summaryFile' = WriteAll(EmptyStream, SubSeq(SummaryWrites, 1, n))
                  /\ IF n = Len(SummaryWrites)
                     THEN /\ console' = print_to(console, T_Saved \o SummaryPath)
                          /\ written' = written \cup {"summary"}
                          /\ status' = AfterSuccess(caller, "summary").status
                          /\ rpc' = AfterSuccess(caller, "summary").rpc
                     ELSE /\ status' = AfterFailure(caller, "summary").status
                          /\ rpc' = AfterFailure(caller, "summary").rpc
                          /\ UNCHANGED <<console, written>>
                  /\ UNCHANGED noDirWrite
    /\ UNCHANGED <<caller, dirExists, images, conMark, trace, calls>>
    /\ UNCHANGED avars

\* main after generate_summary_table: the success banner, the list of
\* generated files and the closing hints
MainBanner ==
    /\ status = "running"
    /\ rpc = "banner"
    /\ console' = PrintAll(console, MainBannerPrints)
    /\ status' = "finished"
    /\ rpc' = "stopped"
    /\ UNCHANGED <<caller, dirExists, images, summaryFile, conMark, trace, written,
                   calls, noDirWrite>>
    /\ UNCHANGED avars

InitReport == AInit /\ RInit /\ dirExists \in BOOLEAN

NextReport ==
    \/ CallMain
    \/ CallChart
    \/ CallSummary
    \/ MainMakedirs
    \/ PlotChart
    \/ SummaryPrint
    \/ SummaryWrite
    \/ MainBanner

SpecReport == InitReport /\ [][NextReport]_vars

Init == AInit /\ RInit /\ dirExists = FALSE

Next == Analyze \/ ScanLine \/ AnalyzeReturn

Spec == Init /\ [][Next]_vars

NextReuse == Analyze \/ AnalyzeAgain \/ ScanLine \/ AnalyzeReturn

SpecReuse == Init /\ [][NextReuse]_vars

(***************************************************************************)
(* Reference definitions used by the properties: what "the number of lines *)
(* satisfying a predicate" and "contains a word in any letter casing" mean.*)
(***************************************************************************)
Matches(k, line) ==
    CASE k = "data_sent" -> IsDataSent(line)
      [] k = "data_received" -> IsDataReceived(line)
      [] k = "dao_sent" -> IsDaoSent(line)
      [] k = "dao_blocked" -> IsDaoBlocked(line)
      [] k = "nodes_blacklisted" -> IsBlacklisted(line)
      [] k = "attack_count" -> IsAttackCount(line)

\* per counter, the number of lines of the log that satisfy its predicate
LineCounts(log) ==
    [k \in CounterNames |-> Cardinality({i \in 1..Len(log) : Matches(k, log[i])})]

SameLetter(a, b) ==
    a = b \/ \E i \in 1..Len(LowerLetters) : {a, b} = {LowerLetters[i], UpperLetters[i]}

\* word occurs in s, each letter in either case
ContainsAnyCase(word, s) ==
    \E i \in 0..(Len(s) - Len(word)) :
        \A j \in 1..Len(word) : SameLetter(s[i + j], word[j])

K_dao == <<"d","a","o">>

LastLine == read[Len(read)]

CountersOf(m) == [k \in CounterNames |-> m[k]]

(***************************************************************************)
(* C1: on a freshly constructed analyzer, during and after the scan each   *)
(* of the six counters equals the number of lines read that satisfy its    *)
(* predicate (a line counts once per predicate, and for every predicate it *)
(* satisfies), and the returned snapshot carries exactly these counts.     *)
(***************************************************************************)
C1_CountersCountLines ==
    /\ apc # "constructed" => self = LineCounts(read)
    /\ apc = "returned" => CountersOf(metrics) = LineCounts(read)

\* a returned scan over a line with a marker twice and a line with three markers
C1_Witness ==
    /\ apc = "returned"
    /\ \E i \in 1..Len(read) : read[i] = L_DataTxTwice
    /\ \E i \in 1..Len(read) : read[i] = L_Multi
    /\ metrics.data_sent = 1
    /\ metrics.dao_blocked = 1
    /\ metrics.nodes_blacklisted = 1
    /\ metrics.attack_count = 1

(***************************************************************************)
(* C2 (as claimed): the counters are zero when any analyze() invocation    *)
(* starts reading, never decrease, and the snapshot an invocation returns  *)
(* counts only the lines read in that invocation.                          *)
(***************************************************************************)
C2_EveryRunStartsAtZero ==
    /\ (apc = "scanning" /\ read = <<>>) => self = ZeroCounters
    /\ \A k \in CounterNames : before[k] <= self[k]
    /\ apc = "returned" => CountersOf(metrics) = LineCounts(read)

(***************************************************************************)
(* C3 (as claimed): a line with the send phrase and "dao" only in lower    *)
(* case leaves dao_sent unchanged.                                         *)
(***************************************************************************)
C3_LowerCaseDaoNotCounted ==
    (/\ read # <<>>
     /\ Contains(K_SentTo, LastLine)
     /\ Contains(K_dao, LastLine)
     /\ ~Contains(K_DAO, LastLine))
        => self.dao_sent = before.dao_sent

(***************************************************************************)
(* C3 (amended): a line with the send phrase and "dao" in any letter       *)
(* casing, lower case included, adds exactly one to dao_sent; a line       *)
(* without the send phrase or without "dao" in any casing adds nothing.    *)
(***************************************************************************)
C3_AnyCaseDaoCounted ==
    read # <<>> =>
        IF Contains(K_SentTo, LastLine) /\ ContainsAnyCase(K_dao, LastLine)
        THEN self.dao_sent = before.dao_sent + 1
        ELSE self.dao_sent = before.dao_sent

\* the lower-case line has just been scanned and was counted
C3_Witness ==
    /\ read # <<>>
    /\ LastLine = L_SentDaoLower
    /\ ~Contains(K_DAO, LastLine)
    /\ self.dao_sent = before.dao_sent + 1

(***************************************************************************)
(* C4: a line containing "blocked" in any letter casing adds exactly one   *)
(* to dao_blocked, with or without the exact phrase 'Blocked DAO'.         *)
(***************************************************************************)
C4_BlockedAnyCase ==
    (read # <<>> /\ ContainsAnyCase(K_blocked, LastLine))
        => self.dao_blocked = before.dao_blocked + 1

\* the upper-case line, which holds neither exact-case literal, was counted
C4_Witness ==
    /\ read # <<>>
    /\ LastLine = L_BLOCKED
    /\ ~Contains(K_BlockedDAO, LastLine)
    /\ ~Contains(K_blocked, LastLine)
    /\ self.dao_blocked = before.dao_blocked + 1

(***************************************************************************)
(* C5: the snapshot has pdr = 100 * data_received / data_sent when         *)
(* data_sent > 0 and pdr = 0, plr = 100 when data_sent = 0; a division by  *)
(* zero is never evaluated.                                                *)
(***************************************************************************)
C5_PdrFormula ==
    apc = "returned" =>
        /\ metrics.pdr # DivByZero
        /\ metrics.plr # DivByZero
        /\ metrics.data_sent > 0 =>
              metrics.pdr = Rat(100 * metrics.data_received, metrics.data_sent)
        /\ metrics.data_sent = 0 =>
              metrics.pdr = RatInt(0) /\ metrics.plr = RatInt(100)

\* the empty log: nothing read, nothing sent
C5_Witness ==
    /\ apc = "returned"
    /\ read = <<>>
    /\ metrics.data_sent = 0
    /\ metrics.pdr = RatInt(0)
    /\ metrics.plr = RatInt(100)

(***************************************************************************)
(* C6: in every returned snapshot pdr + plr = 100, the data_sent = 0 case  *)
(* included.                                                               *)
(***************************************************************************)
C6_PdrPlusPlr ==
    apc = "returned" => RatPlus(metrics.pdr, metrics.plr) = RatInt(100)

\* a snapshot whose delivery ratio is not a whole number
C6_Witness ==
    /\ apc = "returned"
    /\ metrics.data_sent = 3
    /\ metrics.data_received = 1
    /\ metrics.pdr = [num |-> 100, den |-> 3]
    /\ metrics.plr = [num |-> 200, den |-> 3]

(***************************************************************************)
(* C10: the percentages are not clamped.  With data_sent > 0, pdr and plr  *)
(* both lie in [0, 100] exactly when data_received <= data_sent; when      *)
(* data_received > data_sent, pdr > 100 and plr < 0.                       *)
(***************************************************************************)
InPercentRange(q) == RatLeq(RatInt(0), q) /\ RatLeq(q, RatInt(100))

C10_RangeIffReceivedLeqSent ==
    (apc = "returned" /\ metrics.data_sent > 0) =>
        /\ (InPercentRange(metrics.pdr) /\ InPercentRange(metrics.plr))
              <=> metrics.data_received <= metrics.data_sent
        /\ metrics.data_received > metrics.data_sent =>
              /\ RatLess(RatInt(100), metrics.pdr)
              /\ RatLess(metrics.plr, RatInt(0))

\* more receive lines than send lines
C10_Witness ==
    /\ apc = "returned"
    /\ metrics.data_sent = 1
    /\ metrics.data_received = 2
    /\ metrics.pdr = RatInt(200)
    /\ metrics.plr = RatInt(-100)

(***************************************************************************)
(* Reference definitions for the report emitter's properties.              *)
(***************************************************************************)
IsPrefix(a, b) == Len(a) <= Len(b) /\ \A i \in 1..Len(a) : a[i] = b[i]

\* the output files the steps of a sequence are meant to write
StepOutputs(steps) == {steps[i] : i \in 1..Len(steps)} \cap Outputs

OnConsole(line) == \E i \in 1..Len(console.lines) : console.lines[i] = line

BannerPrinted == OnConsole(T_Success)

FileListPrinted == OnConsole(T_GeneratedFiles)

AllButLast(q) == SubSeq(q, 1, Len(q) - 1)

\* generate_summary_table has returned normally in the current invocation
SummaryDone == "summary" \in written

\* the console lines generate_summary_table printed before its "Saved:" line
TableConsole ==
    LET saved == CHOOSE i \in (conMark + 1)..Len(console.lines) :
                     console.lines[i] = T_Saved \o SummaryPath
    IN  SubSeq(console.lines, conMark + 1, saved - 1)

(***************************************************************************)
(* C7: main() runs its steps in the fixed order makedirs, pdr, delay,      *)
(* power, plr, fpr, memory, summary.  A failing step ends the run: every   *)
(* earlier output was written, the failing step's and all later ones were  *)
(* not, and neither the success banner nor the file list is printed.  The  *)
(* banner is on the console only when all seven outputs were written.      *)
(***************************************************************************)
C7_MainAbortsAtFirstFailure ==
    caller = "main" =>
        /\ IsPrefix(trace, MainOrder)
        /\ status = "aborted" =>
              /\ trace # <<>>
              /\ written = StepOutputs(AllButLast(trace))
              /\ ~BannerPrinted
              /\ ~FileListPrinted
        /\ status = "running" =>
              written = StepOutputs(IF rpc = "summary_write" THEN AllButLast(trace) ELSE trace)
        /\ BannerPrinted =>
              /\ status = "finished"
              /\ trace = MainOrder
              /\ written = Outputs
              /\ FileListPrinted
        /\ status = "finished" => BannerPrinted

\* main() aborted by the failure of its third chart
C7_Witness ==
    /\ caller = "main"
    /\ status = "aborted"
    /\ trace = <<"makedirs", "pdr", "delay", "power">>
    /\ written = {"pdr", "delay"}
    /\ ~BannerPrinted

(***************************************************************************)
(* C8 (as claimed): once generate_summary_table has returned, the lines it *)
(* printed to the console are the lines of results/summary_table.txt, none *)
(* present in one and absent in the other.                                 *)
(***************************************************************************)
C8_ConsoleEqualsFile ==
    SummaryDone => TableConsole = summaryFile.lines

(***************************************************************************)
(* C8 (amended): once generate_summary_table has returned without an I/O   *)
(* error, the file holds the title block, the column header, the dashed    *)
(* separator, one row per metric in the order PDR, PLR, AE2ED, APC, DAOs   *)
(* Blocked, FPR, and the closing separator; the console shows the same     *)
(* lines in the same order, preceded by one empty line and followed by one *)
(* empty line that are not in the file.                                    *)
(***************************************************************************)
C8_ConsoleIsFileFramedByBlankLines ==
    SummaryDone =>
        /\ summaryFile # Absent
        /\ summaryFile.cur = <<>>
        /\ TableConsole = << <<>> >> \o summaryFile.lines \o << <<>> >>
        /\ Len(summaryFile.lines) = Len(ResultsMetric) + 6
        /\ summaryFile.lines[1] = Rep("=", 80)
        /\ summaryFile.lines[2] = T_Title
        /\ summaryFile.lines[3] = Rep("=", 80)
        /\ SubSeq(summaryFile.lines[4], 1, Len(T_Metric)) = T_Metric
        /\ summaryFile.lines[5] = Rep("-", 80)
        /\ \A i \in 1..Len(ResultsMetric) :
              SubSeq(summaryFile.lines[5 + i], 1, Len(ResultsMetric[i])) = ResultsMetric[i]
        /\ summaryFile.lines[Len(ResultsMetric) + 6] = Rep("=", 80)

\* a completed table: 12 lines in the file, 14 on the console
C8_Witness ==
    /\ SummaryDone
    /\ summaryFile # Absent
    /\ Len(summaryFile.lines) = 12
    /\ Len(TableConsole) = 14
    /\ TableConsole[1] = <<>>
    /\ TableConsole[2] = summaryFile.lines[1]

(***************************************************************************)
(* C9 (as claimed): every chart function creates results/ if it is absent  *)
(* before it writes, so once a chart function has run the directory exists *)
(* and no write was attempted without it.                                  *)
(***************************************************************************)
C9_ChartEnsuresDirectory ==
    (\E i \in 1..Len(trace) : trace[i] \in ChartSet) => (dirExists /\ ~noDirWrite)

====
